---------------------------- MODULE Spec2Model ----------------------------
(***************************************************************************)
(* A model of TinyGen: the sandboxed file operations of                    *)
(* processes/filesystem_io.py, the repository operations of                *)
(* processes/git_utils.py, the Task state machine of task.py and the       *)
(* retry loop of TinyGenTask.run_tinygen (tinygen.py).                     *)
(*                                                                         *)
(* Two specifications share the variables:                                 *)
(*   SpecFs  two tasks, each with a cloned workspace, call the file        *)
(*           operations with crafted file names, in any interleaving;      *)
(*   Spec    one task is run by run_tinygen while the cancel route and     *)
(*           the clock act concurrently.                                   *)
(***************************************************************************)
EXTENDS Integers, Sequences, FiniteSets, TLC

VARIABLES
    fs,              \* the file system: canonical absolute path -> node
    last,            \* SpecFs: the last file operation and what it did
    pc,              \* run_tinygen: the statement the run is at
    status,          \* Task.status
    result,          \* Task.result
    start_time,      \* Task.start_time
    end_time,        \* Task.end_time
    elapsed_time,    \* Task.elapsed_time
    now,             \* the wall clock read by datetime.now()
    retry_id,        \* run_tinygen: the loop variable of the retry loop
    file_list,       \* run_tinygen: file_list
    relevent_files,  \* run_tinygen: relevent_files (a Python list)
    function_calls,  \* run_tinygen: function_calls (a Python list)
    messages,        \* step_generate_functions: messages (the conversation)
    proposed_changes, \* run_tinygen: proposed_changes
    response,        \* step_ask_if_done: the text of the last self-assessment
    diff,            \* run_tinygen: diff
    exc,             \* the exception being handled by run_tinygen
    tasks,           \* TaskManager.tasks: the tasks by identifier
    lookup,          \* the last call of the task manager and what it gave
    logs,            \* Task.logs of the task Self (written under SpecLog;
                     \* no step of the program reads it)
    task_status,     \* Task.status of each stored task, and where its
                     \* background run stands (moved under SpecSummary)
    summary,         \* the call of get_task_summary: its loop and its counts
    hist             \* observations of the run (history, not program state)

fsVars   == <<fs, last>>
taskVars == <<status, result, start_time, end_time, elapsed_time>>
runVars  == <<pc, retry_id, file_list, relevent_files, function_calls, messages,
              proposed_changes, response, diff, exc>>
mgrVars  == <<tasks, lookup, logs, task_status, summary>>
vars     == <<fs, last, pc, status, result, start_time, end_time, elapsed_time,
              now, retry_id, file_list, relevent_files, function_calls, messages,
              proposed_changes, response, diff, exc, tasks, lookup, logs,
              task_status, summary, hist>>

None == "None"

-----------------------------------------------------------------------------
(* Paths.  A path as the program writes it is a record: whether it is      *)
(* absolute, and its components.  A canonical path (what Path.resolve()    *)
(* returns, and what the file system is keyed by) is the sequence of names *)
(* from the file-system root.                                              *)

Rel(parts) == [abs |-> FALSE, parts |-> parts]
Abs(parts) == [abs |-> TRUE, parts |-> parts]

\* The process's working directory and constants.REPO_TEMP_DIR.
Cwd == <<"app">>
REPO_TEMP_DIR == Rel(<<"tmp">>)

\* The task identifiers (uuid4 values) of the two tasks.
Tasks == {"t1", "t2"}

\* pathlib: Path(a, b).  An absolute later segment replaces what precedes it.
PathJoin(a, b) ==
    IF b.abs THEN b ELSE [abs |-> a.abs, parts |-> a.parts \o b.parts]

Front(s) == SubSeq(s, 1, Len(s) - 1)
Parent(p) == IF p = <<>> THEN <<>> ELSE Front(p)

\* os.path.realpath: the components are walked left to right; "." is
\* skipped, ".." steps to the parent of the directory reached so far, and a
\* symbolic link met on the way is replaced by its target.
RECURSIVE Walk(_, _, _)
Walk(f, cur, rest) ==
    IF rest = <<>> THEN cur
    ELSE LET c   == Head(rest)
             nxt == Append(cur, c)
         IN  IF c = "." THEN Walk(f, cur, Tail(rest))
             ELSE IF c = ".." THEN Walk(f, Parent(cur), Tail(rest))
             ELSE IF nxt \in DOMAIN f /\ f[nxt].kind = "link"
                  THEN Walk(f, f[nxt].target, Tail(rest))
                  ELSE Walk(f, nxt, Tail(rest))

\* Path.resolve(): make the path absolute, then canonical.
Resolve(f, p) == Walk(f, <<>>, IF p.abs THEN p.parts ELSE Cwd \o p.parts)

\* Path.parents of a canonical path: its proper prefixes.
Parents(t) == {SubSeq(t, 1, n) : n \in 0..(Len(t) - 1)}

-----------------------------------------------------------------------------
(* The file system.                                                        *)

File(c)    == [kind |-> "file", content |-> c, target |-> <<>>]
Dir        == [kind |-> "dir", content |-> None, target |-> <<>>]
Link(t)    == [kind |-> "link", content |-> None, target |-> t]

Exists(f, t) == t \in DOMAIN f
IsFile(f, t) == t \in DOMAIN f /\ f[t].kind = "file"
IsDir(f, t)  == t \in DOMAIN f /\ f[t].kind = "dir"

Put(f, t, node) == [q \in DOMAIN f \cup {t} |-> IF q = t THEN node ELSE f[q]]
Remove(f, t)    == [q \in DOMAIN f \ {t} |-> f[q]]

IsPrefix(a, b) == Len(a) <= Len(b) /\ SubSeq(b, 1, Len(a)) = a

\* The machine before any clone: the application directory, the temporary
\* directory and one file outside both.
BaseFs ==
    (<<>> :> Dir) @@ (<<"app">> :> Dir) @@ (<<"app", "tmp">> :> Dir)
    @@ (<<"etc">> :> Dir) @@ (<<"etc", "passwd">> :> File("secret"))

\* What one file operation did: its outcome ("ok" or the exception raised),
\* the value returned, the file system after it, and the file-system call
\* it made (the canonical path handed to the call and its effect).
NoIO == [path |-> <<>>, effect |-> "none"]
Outcome(o, v, f, io) == [outcome |-> o, value |-> v, fs |-> f, io |-> io]

\* Path.read_text()
read_text(f, p) ==
    LET t == Resolve(f, p) IN
    IF IsFile(f, t)
    THEN Outcome("ok", f[t].content, f, [path |-> t, effect |-> "read"])
    ELSE IF IsDir(f, t)
    THEN Outcome("IsADirectoryError", None, f, [path |-> t, effect |-> "failed"])
    ELSE Outcome("FileNotFoundError", None, f, [path |-> t, effect |-> "failed"])

\* Path.write_text(content): open(path, "w") creates the file when its
\* directory exists, truncates it when it exists, and makes no directory.
write_text(f, p, content) ==
    LET t == Resolve(f, p) IN
    IF IsDir(f, t)
    THEN Outcome("IsADirectoryError", None, f, [path |-> t, effect |-> "failed"])
    ELSE IF ~IsDir(f, Parent(t))
    THEN Outcome("FileNotFoundError", None, f, [path |-> t, effect |-> "failed"])
    ELSE IF IsFile(f, t)
    THEN Outcome("ok", None, Put(f, t, File(content)), [path |-> t, effect |-> "written"])
    ELSE Outcome("ok", None, Put(f, t, File(content)), [path |-> t, effect |-> "created"])

\* Path.unlink(): removes the name itself (a final symbolic link is not
\* followed); the directories leading to it are resolved.
unlink(f, p) ==
    LET a == IF p.abs THEN p.parts ELSE Cwd \o p.parts
        t == IF a = <<>> \/ a[Len(a)] \in {".", ".."}
             THEN Walk(f, <<>>, a)
             ELSE Append(Walk(f, <<>>, Front(a)), a[Len(a)])
    IN  IF ~Exists(f, t)
        THEN Outcome("FileNotFoundError", None, f, [path |-> t, effect |-> "failed"])
        ELSE IF IsDir(f, t)
        THEN Outcome("IsADirectoryError", None, f, [path |-> t, effect |-> "failed"])
        ELSE Outcome("ok", None, Remove(f, t), [path |-> t, effect |-> "removed"])


-----------------------------------------------------------------------------
(* processes/filesystem_io.py: the sandboxed file operations.              *)

\* Path(root_path, str(uuid), filename)
FullPath(root_path, uuid, filename) ==
    PathJoin(PathJoin(root_path, Rel(<<uuid>>)), filename)

\* Path(root_path, str(uuid)), resolved: the root of a task's workspace.
RootOf(f, root_path, uuid) == Resolve(f, PathJoin(root_path, Rel(<<uuid>>)))

is_safe_path(f, base_path, target_path) ==
    LET base   == Resolve(f, base_path)
        target == Resolve(f, target_path)
    IN  base \in Parents(target) \/ base = target

Unsafe(f) == Outcome("ValueError", None, f, NoIO)

safe_read_file(f, root_path, uuid, filename) ==
    LET full_path == FullPath(root_path, uuid, filename) IN
    IF ~is_safe_path(f, root_path, full_path) THEN Unsafe(f)
    ELSE read_text(f, full_path)

safe_modify_file(f, root_path, uuid, filename, content) ==
    LET full_path == FullPath(root_path, uuid, filename) IN
    IF ~is_safe_path(f, root_path, full_path) THEN Unsafe(f)
    ELSE write_text(f, full_path, content)

\* A delete that lets the FileNotFoundError of unlink through.
safe_delete_file_Strict(f, root_path, uuid, filename) ==
    LET full_path == FullPath(root_path, uuid, filename) IN
    IF ~is_safe_path(f, root_path, full_path) THEN Unsafe(f)
    ELSE unlink(f, full_path)

safe_delete_file(f, root_path, uuid, filename) ==
    LET full_path == FullPath(root_path, uuid, filename)
        r         == unlink(f, full_path)
    IN  IF ~is_safe_path(f, root_path, full_path) THEN Unsafe(f)
        ELSE IF r.outcome = "FileNotFoundError"
        THEN Outcome("ok", None, f, r.io)
        ELSE r

safe_create_file(f, root_path, uuid, filename, content) ==
    LET full_path == FullPath(root_path, uuid, filename) IN
    IF ~is_safe_path(f, root_path, full_path) THEN Unsafe(f)
    ELSE write_text(f, full_path, content)

\* A listing that does not leave out the version-control metadata.
list_all_files_WithGit(f, root_path, uuid) ==
    LET full_path == Resolve(f, PathJoin(root_path, Rel(<<uuid>>))) IN
    {SubSeq(t, Len(full_path) + 1, Len(t)) :
        t \in {q \in DOMAIN f :
                 IsFile(f, q) /\ IsPrefix(full_path, q) /\ q # full_path}}

\* list_all_files: the files below the workspace root, as root-relative
\* paths, except those with a ".git" component.
InSeq(x, s) == \E i \in 1..Len(s) : s[i] = x

list_all_files(f, root_path, uuid) ==
    LET full_path == RootOf(f, root_path, uuid) IN
    {SubSeq(t, Len(full_path) + 1, Len(t)) :
        t \in {q \in DOMAIN f :
                 /\ IsFile(f, q)
                 /\ IsPrefix(full_path, q) /\ q # full_path
                 /\ ~InSeq(".git", SubSeq(q, Len(full_path) + 1, Len(q)))}}

-----------------------------------------------------------------------------
(* processes/git_utils.py: clone and delete.                               *)

\* The tree of the remote repository's HEAD commit (root-relative paths):
\* one file, one symbolic link that leaves the repository, a .gitignore
\* whose one pattern is the name "ign", and a directory with one file.
RepoTree ==
    (<<"a">> :> File("c0")) @@ (<<"ln">> :> Link(<<"etc">>))
    @@ (<<".gitignore">> :> File("ign"))
    @@ (<<"d">> :> Dir) @@ (<<"d", "b">> :> File("c0"))

\* The paths the commit tracks: its files and links.
RepoFiles == {r \in DOMAIN RepoTree : RepoTree[r].kind # "dir"}

\* The version-control metadata a clone writes.
GitMeta == (<<".git">> :> Dir) @@ (<<".git", "HEAD">> :> File("ref"))

\* git_clone_repo, when the clone succeeds: the root is made if absent and
\* the repository is checked out into it.
git_clone_repo(f, root_path, uuid) ==
    LET full_path == RootOf(f, root_path, uuid)
        tree      == RepoTree @@ GitMeta
        added     == {full_path \o r : r \in DOMAIN tree}
    IN  [q \in DOMAIN f \cup {full_path} \cup added |->
            IF q \in added THEN tree[SubSeq(q, Len(full_path) + 1, Len(q))]
            ELSE IF q = full_path THEN Dir
            ELSE f[q]]

\* A deletion that empties the root and leaves the directory itself.
git_delete_repo_KeepRoot(f, root_path, uuid) ==
    LET full_path == RootOf(f, root_path, uuid) IN
    [q \in {x \in DOMAIN f : ~IsPrefix(full_path, x) \/ x = full_path} |-> f[q]]

\* A deletion that only removes a root holding a repository.
git_delete_repo_OnlyRepos(f, root_path, uuid) ==
    LET full_path == RootOf(f, root_path, uuid) IN
    IF IsDir(f, full_path \o <<".git">>)
    THEN [q \in {x \in DOMAIN f : ~IsPrefix(full_path, x)} |-> f[q]]
    ELSE f

\* git_delete_repo: shutil.rmtree of the root when it exists.
git_delete_repo(f, root_path, uuid) ==
    LET full_path == RootOf(f, root_path, uuid) IN
    IF Exists(f, full_path)
    THEN [q \in {x \in DOMAIN f : ~IsPrefix(full_path, x)} |-> f[q]]
    ELSE f

\* git_reset_repo: pygit2.Repository opens the repository (it raises when
\* there is none) and repo.reset(HEAD, GIT_RESET_HARD) checks the tree of
\* the commit out over the working tree: what the commit tracks is written
\* back, what it does not track is left where it is.
git_reset_repo(f, root_path, uuid) ==
    LET full_path == RootOf(f, root_path, uuid)
        tracked   == {full_path \o r : r \in DOMAIN RepoTree}
    IN  IF ~IsDir(f, full_path \o <<".git">>)
        THEN Outcome("GitError", None, f, NoIO)
        ELSE Outcome("ok", None,
                     [q \in DOMAIN f \cup tracked |->
                         IF q \in tracked
                         THEN RepoTree[SubSeq(q, Len(full_path) + 1, Len(q))]
                         ELSE f[q]],
                     NoIO)

-----------------------------------------------------------------------------
(* tinygen.py: the file operations of a task, bound to its own identifier. *)

read_file(f, task_id, filename) ==
    safe_read_file(f, REPO_TEMP_DIR, task_id, filename)

modify_file(f, task_id, filename, content) ==
    safe_modify_file(f, REPO_TEMP_DIR, task_id, filename, content)

delete_file(f, task_id, filename) ==
    safe_delete_file(f, REPO_TEMP_DIR, task_id, filename)

create_file(f, task_id, filename, content) ==
    safe_create_file(f, REPO_TEMP_DIR, task_id, filename, content)

-----------------------------------------------------------------------------
(* task.py: the task manager and the log of a task.                        *)

\* The identifiers a request may name: those of the tasks and one more.
Ids == Tasks \cup {"t3"}

\* The prompts a task is made with.
Prompts == {"p1", "p2"}

\* A task object, as far as the manager is concerned.
TaskObj(task_id, prompt) == [task_id |-> task_id, prompt |-> prompt]

\* TaskManager.__init__: self.tasks = {}
NoTasks == [i \in {} |-> TaskObj(i, "p1")]

\* An add_task that keeps the task already stored under the identifier.
add_task_KeepFirst(ts, task) ==
    IF task.task_id \in DOMAIN ts THEN ts
    ELSE [i \in DOMAIN ts \cup {task.task_id} |->
             IF i = task.task_id THEN task ELSE ts[i]]

\* TaskManager.add_task: self.tasks[task.task_id] = task
add_task(ts, task) ==
    [i \in DOMAIN ts \cup {task.task_id} |->
        IF i = task.task_id THEN task ELSE ts[i]]

\* TaskManager.task_exists
task_exists(ts, task_id) == task_id \in DOMAIN ts

\* What a call of the manager gave: the call, its argument, whether it
\* returned or raised, and the task or the truth value returned.
NoTask == TaskObj(None, None)
Gave(op, task_id, outcome, task, truth) ==
    [op |-> op, task_id |-> task_id, outcome |-> outcome, task |-> task,
     truth |-> truth]
NoLookup == Gave(None, None, None, NoTask, FALSE)

\* TaskManager.get_task: the stored task, or KeyError
get_task(ts, task_id) ==
    IF task_id \in DOMAIN ts
    THEN Gave("get_task", task_id, "ok", ts[task_id], FALSE)
    ELSE Gave("get_task", task_id, "KeyError", NoTask, FALSE)

\* Task.status of a stored task, with the position of its background run
\* (queued, running, returned).
Stored(st, at) == [status |-> st, at |-> at]

\* TaskManager.get_task_summary: the keys of the summary, and the if/elif
\* chain, which compares task.status with one status after the other.
Buckets == {"pending", "finished", "errored", "cancelled", "other"}
Chain == <<"PENDING", "DONE", "ERROR", "CANCELLED">>
BucketOf == <<"pending", "finished", "errored", "cancelled">>
NoCounts == [b \in Buckets |-> 0]

\* The call of get_task_summary: whether it is under way, the tasks its
\* loop has still to visit, the task it is at, the comparisons made on
\* that task, and the counts.
NoSummary ==
    [active |-> FALSE, todo |-> {}, task |-> None, read |-> 0,
     counts |-> NoCounts]

\* The components that hold the logger of a task, and the levels of the
\* logging module with their numbers.
Components == {"task", "tinygen", "gpt"}
Levels == {"DEBUG", "INFO", "WARNING", "ERROR"}
Severity(level) ==
    CASE level = "DEBUG" -> 10 [] level = "INFO" -> 20
      [] level = "WARNING" -> 30 [] level = "ERROR" -> 40

\* A handler that keeps the latest entry only.
emit_Latest(logs_list, log_entry) == <<log_entry>>

\* ListHandler.emit
emit(logs_list, log_entry) == Append(logs_list, log_entry)

\* Logger.log of the logger that _setup_logger makes (level INFO, one
\* ListHandler on the list of the task): the list after the call.
Log(logs_list, component, level) ==
    IF Severity(level) >= Severity("INFO")
    THEN emit(logs_list, [component |-> component, level |-> level])
    ELSE logs_list

-----------------------------------------------------------------------------
(* SpecFs: two tasks with cloned workspaces call the file operations.      *)

\* The workspace root of a task: REPO_TEMP_DIR/<task_id>.
WorkspaceRoot(f, task_id) == RootOf(f, REPO_TEMP_DIR, task_id)

\* The contents an edit operation may write (the clone holds "c0").
Contents == {"c1", "c2"}
FsContents == {"c1"}

\* The file names the operations are called with: plain names, the root
\* itself, traversal sequences (into a sibling workspace, to the temporary
\* directory, out of it), an absolute override, a symbolic-link escape and
\* a name whose directory does not exist.
Filenames ==
    {Rel(<<"a">>), Rel(<<"new">>), Rel(<<".">>), Rel(<<"..">>),
     Rel(<<"ln">>), Rel(<<"ln", "passwd">>), Rel(<<"nodir", "f">>),
     Rel(<<"..", "..", "..", "etc", "passwd">>), Abs(<<"etc", "passwd">>)}
    \cup {Rel(<<"..", o, "a">>) : o \in Tasks}

NoOp == [task |-> None, op |-> None, filename |-> Rel(<<>>), resolved |-> <<>>,
         outcome |-> None, io |-> NoIO]

Record(task_id, op, filename, r) ==
    [task |-> task_id, op |-> op, filename |-> filename,
     resolved |-> Resolve(fs, FullPath(REPO_TEMP_DIR, task_id, filename)),
     outcome |-> r.outcome, io |-> r.io]

\* What the model observes of a run, beside the program's own state: when
\* the first cancel() was called ("none", "early": before the run started,
\* "inflight", "late": after the run returned), how many phases the run
\* began after a cancel() (counted up to 2), how many attempts began, how
\* many times reset_repo was called, whether the loop ended satisfied,
\* the working-tree changes in place right after the apply step of the
\* attempt in progress (of the last attempt, once the loop is over), the
\* paths its create_file calls created, whether a call of delete_repo at
\* the end of the run failed, whether the reply that the phase just
\* completed got from the model had no content, the tasks that were
\* handed to add_task since the manager was made, the response that
\* the last follow-up turn of the file selection taken on its own got,
\* and of the file selection just completed: whether the response to its
\* first turn held the sentinel, and how many turns it took.
HistInit ==
    [cancel |-> "none", after_cancel |-> 0, attempts |-> 0, resets |-> 0,
     satisfied |-> FALSE, after_apply |-> {}, created |-> {},
     delete_failed |-> FALSE, empty |-> FALSE, added |-> {}, reply |-> <<>>,
     sentinel |-> FALSE, select_turns |-> 0,
     seen |-> [i \in {} |-> {}], counted |-> [i \in {} |-> ""]]

\* An Optional field of a task: None, or a value.
Unset     == <<>>
Set(v)    == <<v>>
IsSet(o)  == o # <<>>

\* The state of a task and of its run before run_tinygen is called:
\* Task.__init__.
TaskInit ==
    /\ pc = "queued"
    /\ status = "CREATED"
    /\ result = [none |-> TRUE, entries |-> {}, msg |-> ""]
    /\ now = 0
    /\ start_time = 0
    /\ end_time = Unset
    /\ elapsed_time = Unset
    /\ retry_id = 0
    /\ file_list = {}
    /\ relevent_files = <<>>
    /\ function_calls = <<>>
    /\ messages = <<>>
    /\ proposed_changes = ""
    /\ response = <<>>
    /\ diff = [none |-> TRUE, entries |-> {}, msg |-> ""]
    /\ exc = ""
    /\ logs = <<>>
    /\ task_status = [i \in DOMAIN tasks |-> Stored("CREATED", "queued")]
    /\ summary = NoSummary
    /\ hist = HistInit

InitFs ==
    /\ fs = git_clone_repo(git_clone_repo(BaseFs, REPO_TEMP_DIR, "t1"),
                           REPO_TEMP_DIR, "t2")
    /\ last = NoOp
    /\ tasks = add_task(add_task(NoTasks, TaskObj("t1", "p1")),
                        TaskObj("t2", "p1"))
    /\ lookup = NoLookup
    /\ TaskInit

ReadFile ==
    \E t \in Tasks, fn \in Filenames :
        LET r == read_file(fs, t, fn) IN
        /\ fs' = r.fs
        /\ last' = Record(t, "read_file", fn, r)
        /\ UNCHANGED <<taskVars, runVars, now, hist>>
        /\ UNCHANGED mgrVars

ModifyFile ==
    \E t \in Tasks, fn \in Filenames, c \in FsContents :
        LET r == modify_file(fs, t, fn, c) IN
        /\ fs' = r.fs
        /\ last' = Record(t, "modify_file", fn, r)
        /\ UNCHANGED <<taskVars, runVars, now, hist>>
        /\ UNCHANGED mgrVars

CreateFile ==
    \E t \in Tasks, fn \in Filenames, c \in FsContents :
        LET r == create_file(fs, t, fn, c) IN
        /\ fs' = r.fs
        /\ last' = Record(t, "create_file", fn, r)
        /\ UNCHANGED <<taskVars, runVars, now, hist>>
        /\ UNCHANGED mgrVars

DeleteFile ==
    \E t \in Tasks, fn \in Filenames :
        LET r == delete_file(fs, t, fn) IN
        /\ fs' = r.fs
        /\ last' = Record(t, "delete_file", fn, r)
        /\ UNCHANGED <<taskVars, runVars, now, hist>>
        /\ UNCHANGED mgrVars

NextFs == ReadFile \/ ModifyFile \/ CreateFile \/ DeleteFile

SpecFs == InitFs /\ [][NextFs]_vars

-----------------------------------------------------------------------------
(* SpecReset: git_reset_repo called on the workspace of a task between     *)
(* the file operations that change it.                                     *)

GitResetRepo ==
    \E t \in Tasks :
        LET r == git_reset_repo(fs, REPO_TEMP_DIR, t) IN
        /\ fs' = r.fs
        /\ last' = Record(t, "git_reset_repo", Rel(<<>>), r)
        /\ UNCHANGED <<taskVars, runVars, now, hist>>
        /\ UNCHANGED mgrVars

NextReset == ModifyFile \/ CreateFile \/ DeleteFile \/ GitResetRepo

SpecReset == InitFs /\ [][NextReset]_vars

-----------------------------------------------------------------------------
(* task.py: the Task state machine.                                        *)

Terminal == {"DONE", "ERROR", "CANCELLED"}

\* The largest value the clock takes in the model.
MaxClock == 1

\* Task.update_status: sets the status; a terminal status stamps end_time
\* with datetime.now() (any time from the last reading on) and computes
\* elapsed_time.
update_status(s) ==
    /\ status' = s
    /\ IF s \in Terminal
       THEN \E t \in now..MaxClock :
               /\ now' = t
               /\ end_time' = Set(t)
               /\ elapsed_time' = Set(t - start_time)
       ELSE UNCHANGED <<now, end_time, elapsed_time>>

\* Task.is_done
is_done == status \in Terminal

\* Task.start
start == update_status("PENDING")

\* Task.cancel
cancel == update_status("CANCELLED")

\* main.route_cancel_task: the task is known to the task manager from its
\* creation on, and the route calls task.cancel() whatever its status.
Cancel ==
    /\ cancel
    /\ hist' = [hist EXCEPT !.cancel =
                   IF hist.cancel # "none" THEN hist.cancel
                   ELSE IF pc = "queued" THEN "early"
                   ELSE IF pc = "returned" THEN "late"
                   ELSE "inflight"]
    /\ UNCHANGED <<fsVars, runVars, result, start_time>>
    /\ UNCHANGED mgrVars

-----------------------------------------------------------------------------
(* Text.  A response of the model is a sequence of characters; the result  *)
(* of a task is None or a string, which is a diff text (its entries) or a  *)
(* message.                                                                *)

Whitespace == {" ", "\n"}

\* str.lower()
LowerChar(c) ==
    CASE c = "D" -> "d" [] c = "O" -> "o" [] c = "N" -> "n" [] c = "E" -> "e"
      [] OTHER -> c
Lower(s) == [i \in 1..Len(s) |-> LowerChar(s[i])]

\* str.strip()
RECURSIVE LStrip(_)
LStrip(s) == IF s # <<>> /\ Head(s) \in Whitespace THEN LStrip(Tail(s)) ELSE s
RECURSIVE RStrip(_)
RStrip(s) == IF s # <<>> /\ s[Len(s)] \in Whitespace THEN RStrip(Front(s)) ELSE s
Strip(s) == RStrip(LStrip(s))

NoText      == [none |-> TRUE, entries |-> {}, msg |-> ""]
DiffText(d) == [none |-> FALSE, entries |-> d, msg |-> ""]
Message(m)  == [none |-> FALSE, entries |-> {}, msg |-> m]

-----------------------------------------------------------------------------
(* processes/git_utils.py: the diff.                                       *)

\* The working tree of a workspace: its files and links outside .git, by
\* root-relative path.
WorkTree(f, root) ==
    {SubSeq(q, Len(root) + 1, Len(q)) :
        q \in {x \in DOMAIN f : /\ IsPrefix(root, x) /\ x # root
                                /\ f[x].kind # "dir"
                                /\ ~InSeq(".git", SubSeq(x, Len(root) + 1, Len(x)))}}

\* The root-relative paths the ignore rules of the working tree match: the
\* name that the .gitignore at the root holds as its pattern.
Ignored(f, root) ==
    IF IsFile(f, root \o <<".gitignore">>)
    THEN {<<f[root \o <<".gitignore">>].content>>}
    ELSE {}

\* The entries of the patch between the HEAD tree and the index after
\* index.add_all(): every tracked path that differs, and the untracked
\* files that add_all stages, which are those no ignore rule matches.
Changes(f, root) ==
    {[path |-> r, change |-> "new", content |-> f[root \o r].content] :
        r \in (WorkTree(f, root) \ RepoFiles) \ Ignored(f, root)}
    \cup {[path |-> r, change |-> "deleted", content |-> None] :
        r \in RepoFiles \ WorkTree(f, root)}
    \cup {[path |-> r, change |-> "modified", content |-> f[root \o r].content] :
        r \in {x \in RepoFiles \cap WorkTree(f, root) : f[root \o x] # RepoTree[x]}}

\* git_generate_diff: pygit2.Repository raises when the root holds no
\* repository; the patch text is "" when nothing differs.
git_generate_diff(f, root_path, uuid) ==
    LET full_path == RootOf(f, root_path, uuid) IN
    IF ~IsDir(f, full_path \o <<".git">>)
    THEN [raised |-> TRUE, text |-> NoText]
    ELSE [raised |-> FALSE, text |-> DiffText(Changes(f, full_path))]

-----------------------------------------------------------------------------
(* tinygen.py: the steps of run_tinygen, for the task Self.                *)

Self == "t1"

\* constants.MAX_RETRIES (its default)
MAX_RETRIES == 3

\* The most turns of the tool loop of step_generate_functions to which the
\* model answers with tool calls.
MaxTurns == 2

NoKeyMessage == "OpenAI API Key not provided."

\* A retry loop that runs one attempt too many.
LoopNext_OffByOne(i) == IF i <= MAX_RETRIES THEN "select" ELSE "diff"

\* for retry_id in range(MAX_RETRIES): the statement after the loop head
\* when the next index is i.
LoopNext(i) == IF i < MAX_RETRIES THEN "select" ELSE "diff"

\* The sequences that list the elements of a finite set once each:
\* the orders list(set) may return.
Orders(S) ==
    {s \in [1..Cardinality(S) -> S] : {s[i] : i \in 1..Cardinality(S)} = S}

\* filter_invalid_files: the readable names, without duplicates.
filter_invalid_files(f, file_list_arg) ==
    {file_list_arg[i] : i \in {j \in 1..Len(file_list_arg) :
                                  read_file(f, Self, file_list_arg[j]).outcome = "ok"}}

\* The responses of the model to the two turns of file selection: whether
\* the content is None or "", whether the text holds "NO RESPONSE", and
\* the tokens str.split() gives (none for a text of white space).
SelectResponses ==
    {[empty |-> TRUE, sentinel |-> FALSE, tokens |-> <<>>],
     [empty |-> FALSE, sentinel |-> FALSE, tokens |-> <<>>],
     [empty |-> FALSE, sentinel |-> TRUE,
      tokens |-> <<Rel(<<"NO">>), Rel(<<"RESPONSE">>)>>],
     [empty |-> FALSE, sentinel |-> FALSE, tokens |-> <<Rel(<<"a">>)>>],
     [empty |-> FALSE, sentinel |-> FALSE,
      tokens |-> <<Rel(<<"a">>), Rel(<<"ghost">>), Rel(<<"a">>)>>]}

\* A test that knows the empty content only.
NoRelevantFiles_EmptyOnly(r) == r.empty

\* if not response_message.content or "NO RESPONSE" in ...content.strip()
NoRelevantFiles(r) == r.empty \/ r.sentinel

\* The follow-up turn of the file selection: the lists it may return for a
\* response.
FollowUp(f, r) ==
    IF NoRelevantFiles(r) THEN {<<>>}
    ELSE Orders(filter_invalid_files(f, r.tokens))

\* The contents of the response to the change proposal: None or "" (both
\* written ""), or a plan.
ProposeResponses == {"", "plan"}

\* A proposal step that hands an empty content on as it is.
step_propose_changes_NoPlaceholder(content) == content

\* step_propose_changes, given the content of the response:
\* response_message.content or "No Response"
step_propose_changes(content) ==
    IF content = "" THEN "No Response" ELSE content

\* The tool calls the model may return: the function name, the keys of the
\* parsed arguments, and their values.
ToolCall(fn, keys, file_path, content) ==
    [function |-> fn, keys |-> keys, file_path |-> file_path, content |-> content]

ToolCalls ==
    {ToolCall("create_file", {"file_path", "content"}, Rel(<<"new">>), "c1"),
     ToolCall("create_file", {"file_path", "content"}, Rel(<<"nodir", "f">>), "c1"),
     ToolCall("create_file", {"file_path", "content"}, Rel(<<"ign">>), "c1"),
     ToolCall("modify_file", {"file_path", "content"}, Rel(<<"a">>), "c2"),
     ToolCall("modify_file", {"file_path"}, Rel(<<"a">>), None),
     ToolCall("delete_file", {"file_path"}, Rel(<<"a">>), None),
     ToolCall("rename_file", {"file_path"}, Rel(<<"a">>), None)}

\* What one turn of the tool loop returns: no tool call, one, or these
\* two.
TurnCalls ==
    {<<>>} \cup {<<c>> : c \in ToolCalls}
    \cup {<<ToolCall("create_file", {"file_path", "content"}, Rel(<<"new">>), "c1"),
            ToolCall("modify_file", {"file_path", "content"}, Rel(<<"a">>), "c2")>>}

\* A message of the conversation: its role, the tool calls of a response
\* of the model, and for a tool result the call it answers and its content.
NoCall == ToolCall(None, {}, Rel(<<>>), None)
Msg(role, tool_calls, tool_call, content) ==
    [role |-> role, tool_calls |-> tool_calls, tool_call |-> tool_call,
     content |-> content]
Prompt(role) == Msg(role, <<>>, NoCall, "")

\* The messages step_generate_functions begins with.
FirstMessages ==
    <<Prompt("system"), Prompt("user"), Prompt("system"), Prompt("user")>>

\* The turns of the tool loop so far whose response held tool calls.
Turns(msgs) ==
    Cardinality({i \in DOMAIN msgs :
                    msgs[i].role = "assistant" /\ msgs[i].tool_calls # <<>>})

\* A tool loop that answers the calls of a turn with one tool result.
ToolTurn_OneResult(st, calls) ==
    IF calls # <<>>
    THEN [messages |->
              st.messages \o <<Msg("assistant", calls, NoCall, "")>>
              \o <<Msg("tool", <<>>, calls[1], "ok")>>
              \o <<Prompt("system")>>,
          function_steps |-> st.function_steps \o calls,
          again |-> TRUE]
    ELSE [messages |-> Append(st.messages, Msg("assistant", <<>>, NoCall, "")),
          function_steps |-> st.function_steps,
          again |-> FALSE]

\* step_generate_functions, one pass of the while loop for a response that
\* holds the given tool calls: the response is appended; each call is
\* appended to function_steps and answered by a tool result "ok"; the
\* loop goes on when there was a call.
ToolTurn(st, calls) ==
    IF calls # <<>>
    THEN [messages |->
              st.messages \o <<Msg("assistant", calls, NoCall, "")>>
              \o [i \in 1..Len(calls) |-> Msg("tool", <<>>, calls[i], "ok")]
              \o <<Prompt("system")>>,
          function_steps |-> st.function_steps \o calls,
          again |-> TRUE]
    ELSE [messages |-> Append(st.messages, Msg("assistant", <<>>, NoCall, "")),
          function_steps |-> st.function_steps,
          again |-> FALSE]

\* list.remove(x): the first occurrence.
RECURSIVE RemoveFirst(_, _)
RemoveFirst(s, x) ==
    IF s = <<>> THEN <<>>
    ELSE IF Head(s) = x THEN Tail(s)
    ELSE <<Head(s)>> \o RemoveFirst(Tail(s), x)

\* A match statement that looks at the name of the function only and takes
\* an argument that is missing as None.
ApplyOne_NameOnly(st, call) ==
    IF call.function = "modify_file"
    THEN [fs  |-> modify_file(st.fs, Self, call.file_path, call.content).fs,
          rel |-> st.rel]
    ELSE IF call.function = "create_file"
    THEN [fs  |-> create_file(st.fs, Self, call.file_path, call.content).fs,
          rel |-> Append(st.rel, call.file_path)]
    ELSE IF call.function = "delete_file"
    THEN IF ~InSeq(call.file_path, st.rel)
         THEN st
         ELSE [fs  |-> delete_file(st.fs, Self, call.file_path).fs,
               rel |-> RemoveFirst(st.rel, call.file_path)]
    ELSE st

\* step_apply_functions, one function call: the match statement, inside
\* the try whose except logs the error and goes on.
ApplyOne(st, call) ==
    IF call.function = "modify_file" /\ {"file_path", "content"} \subseteq call.keys
    THEN [fs  |-> modify_file(st.fs, Self, call.file_path, call.content).fs,
          rel |-> st.rel]
    ELSE IF call.function = "create_file" /\ {"file_path", "content"} \subseteq call.keys
    THEN [fs  |-> create_file(st.fs, Self, call.file_path, call.content).fs,
          rel |-> Append(st.rel, call.file_path)]
    ELSE IF call.function = "delete_file" /\ "file_path" \in call.keys
    THEN IF ~InSeq(call.file_path, st.rel)
         THEN st
         ELSE [fs  |-> delete_file(st.fs, Self, call.file_path).fs,
               rel |-> RemoveFirst(st.rel, call.file_path)]
    ELSE st

\* Whether the case taken for a function call raises (the except clause
\* logs it): the file operation fails, or list.remove() finds no entry.
Raises(st, call) ==
    IF call.function = "modify_file" /\ {"file_path", "content"} \subseteq call.keys
    THEN modify_file(st.fs, Self, call.file_path, call.content).outcome # "ok"
    ELSE IF call.function = "create_file" /\ {"file_path", "content"} \subseteq call.keys
    THEN create_file(st.fs, Self, call.file_path, call.content).outcome # "ok"
    ELSE IF call.function = "delete_file" /\ "file_path" \in call.keys
    THEN \/ ~InSeq(call.file_path, st.rel)
         \/ delete_file(st.fs, Self, call.file_path).outcome # "ok"
    ELSE FALSE

\* An apply step whose try encloses the whole loop: the first function call
\* that raises ends it.
RECURSIVE step_apply_functions_AbortOnError(_, _)
step_apply_functions_AbortOnError(st, calls) ==
    IF calls = <<>> THEN st
    ELSE IF Raises(st, Head(calls)) THEN ApplyOne(st, Head(calls))
    ELSE step_apply_functions_AbortOnError(ApplyOne(st, Head(calls)), Tail(calls))

\* step_apply_functions: the calls in order.
RECURSIVE step_apply_functions(_, _)
step_apply_functions(st, calls) ==
    IF calls = <<>> THEN st
    ELSE step_apply_functions(ApplyOne(st, Head(calls)), Tail(calls))

\* The paths of the create_file calls of an apply step that succeeded (the
\* call raised nothing).
RECURSIVE CreatedBy(_, _)
CreatedBy(st, calls) ==
    IF calls = <<>> THEN {}
    ELSE LET call == Head(calls) IN
         (IF /\ call.function = "create_file"
             /\ {"file_path", "content"} \subseteq call.keys
             /\ create_file(st.fs, Self, call.file_path, call.content).outcome = "ok"
          THEN {call.file_path.parts} ELSE {})
         \cup CreatedBy(ApplyOne(st, call), Tail(calls))

\* The texts the model may answer to the self-assessment.
AssessResponses ==
    {<<>>,
     <<"d", "o", "n", "e">>,
     <<" ", "D", "o", "n", "e", "\n">>,
     <<"D", "O", "N", "E">>,
     <<"d", "o", "n", "e", ".">>,
     <<"n", "o">>}

\* A comparison with the sentinel that forgets to trim the response.
step_ask_if_done_NoStrip(content) ==
    IF content = <<>> THEN FALSE
    ELSE Lower(content) = <<"d", "o", "n", "e">>

\* step_ask_if_done, given the content of the response.
step_ask_if_done(content) ==
    IF content = <<>> THEN FALSE
    ELSE Strip(Lower(content)) = <<"d", "o", "n", "e">>

-----------------------------------------------------------------------------
(* Spec: run_tinygen for the task Self, the cancel route acting at any     *)
(* time.  pc names the statement the run is at; each blocking call (the    *)
(* clone, a call of the model, the reset, the diff, the deletion) returns  *)
(* or raises.                                                              *)

\* A phase of the loop begins: counted when a cancel() came before it; no
\* reply of the model has been seen in it yet.
PhaseStep(h) ==
    [h EXCEPT !.after_cancel =
        IF h.cancel \in {"early", "inflight"} /\ h.after_cancel < 2
        THEN h.after_cancel + 1 ELSE h.after_cancel,
              !.empty = FALSE, !.sentinel = FALSE, !.select_turns = 0]

\* The locals of run_tinygen hold nothing the program reads again once
\* control has left the loop for good.
LoopLocalsDead ==
    /\ retry_id' = 0
    /\ file_list' = {}
    /\ relevent_files' = <<>>
    /\ function_calls' = <<>>
    /\ messages' = <<>>

\* raise: control passes to the except clause of run_tinygen.
Raise(e) ==
    /\ pc' = "set_error"
    /\ exc' = e
    /\ LoopLocalsDead
    /\ proposed_changes' = ""
    /\ response' = <<>>
    /\ diff' = NoText

\* Path.mkdir(parents=True, exist_ok=True) of the workspace root.
MkRoot(f) ==
    LET root == WorkspaceRoot(f, Self) IN
    IF Exists(f, root) THEN f ELSE Put(f, root, Dir)

\* run_tinygen, lines 52-74: start() and the API key.
RunStart ==
    /\ pc = "queued"
    /\ start
    /\ \E key \in BOOLEAN :
          IF key
          THEN /\ pc' = "clone"
               /\ UNCHANGED <<retry_id, file_list, relevent_files,
                              function_calls, messages, response, diff, exc,
                   proposed_changes>>
          ELSE Raise(NoKeyMessage)
    /\ UNCHANGED <<fsVars, result, start_time, hist>>
    /\ UNCHANGED mgrVars

\* clone_repo: the clone succeeds, or it fails once the root is made, or
\* making the root fails.
CloneRepo ==
    /\ pc = "clone"
    /\ \/ /\ fs' = git_clone_repo(fs, REPO_TEMP_DIR, Self)
          /\ pc' = "list"
          /\ UNCHANGED <<retry_id, file_list, relevent_files, function_calls,
                         messages, response, diff, exc,
                   proposed_changes>>
       \/ /\ fs' = MkRoot(fs)
          /\ Raise("GitError")
       \/ /\ UNCHANGED fs
          /\ Raise("PermissionError")
    /\ UNCHANGED <<last, taskVars, now, hist>>
    /\ UNCHANGED mgrVars

\* list_all_files, and the head of the retry loop
ListFiles ==
    /\ pc = "list"
    /\ file_list' = list_all_files(fs, REPO_TEMP_DIR, Self)
    /\ retry_id' = 0
    /\ pc' = LoopNext(0)
    /\ UNCHANGED <<fsVars, taskVars, now, relevent_files, function_calls,
                   messages, response, diff, exc,
                   proposed_changes, hist>>
    /\ UNCHANGED mgrVars

\* step_determine_relevant_files: the first turn, and unless it is empty
\* or the sentinel, the follow-up turn and filter_invalid_files.
StepDetermineRelevantFiles ==
    /\ pc = "select"
    /\ \/ \E r1 \in SelectResponses :
             /\ IF NoRelevantFiles(r1)
                THEN /\ relevent_files' = <<>>
                     /\ hist' = [PhaseStep(hist) EXCEPT
                                    !.attempts = hist.attempts + 1,
                                    !.empty = r1.empty,
                                    !.sentinel = r1.sentinel,
                                    !.select_turns = 1]
                ELSE \E r2 \in SelectResponses :
                        /\ relevent_files' \in FollowUp(fs, r2)
                        /\ hist' = [PhaseStep(hist) EXCEPT
                                       !.attempts = hist.attempts + 1,
                                       !.empty = r2.empty,
                                       !.sentinel = r1.sentinel,
                                       !.select_turns = 2]
             /\ pc' = "propose"
             /\ UNCHANGED <<retry_id, file_list, function_calls, messages,
                            response, diff, exc,
                   proposed_changes>>
       \/ /\ Raise("GenerationError")
          /\ hist' = [PhaseStep(hist) EXCEPT !.attempts = hist.attempts + 1]
    /\ UNCHANGED <<fsVars, taskVars, now>>
    /\ UNCHANGED mgrVars

\* step_propose_changes
StepProposeChanges ==
    /\ pc = "propose"
    /\ \/ \E content \in ProposeResponses :
             /\ proposed_changes' = step_propose_changes(content)
             /\ hist' = [PhaseStep(hist) EXCEPT !.empty = (content = "")]
             /\ pc' = "generate"
             /\ function_calls' = <<>>
             /\ messages' = FirstMessages
             /\ UNCHANGED <<retry_id, file_list, relevent_files, response,
                            diff, exc>>
       \/ /\ Raise("GenerationError")
          /\ hist' = PhaseStep(hist)
    /\ UNCHANGED <<fsVars, taskVars, now>>
    /\ UNCHANGED mgrVars

\* step_generate_functions: one turn of the while loop (proposed_changes
\* goes into the messages of the first turn and is not read again).
StepGenerateFunctions ==
    /\ pc = "generate"
    /\ hist' = PhaseStep(hist)
    /\ \/ \E calls \in TurnCalls :
             /\ calls # <<>> => Turns(messages) < MaxTurns
             /\ LET t == ToolTurn([messages       |-> messages,
                                    function_steps |-> function_calls],
                                   calls)
                IN  /\ messages' = t.messages
                    /\ function_calls' = t.function_steps
                    /\ pc' = IF t.again THEN "generate" ELSE "apply"
             /\ proposed_changes' = ""
             /\ UNCHANGED <<retry_id, file_list, relevent_files, response,
                            diff, exc>>
       \/ Raise("GenerationError")
       \/ Raise("JSONDecodeError")
    /\ UNCHANGED <<fsVars, taskVars, now>>
    /\ UNCHANGED mgrVars

\* step_apply_functions (function_calls stays in scope until the iteration
\* ends)
StepApplyFunctions ==
    /\ pc = "apply"
    /\ LET st == step_apply_functions([fs |-> fs, rel |-> relevent_files],
                                      function_calls)
       IN  /\ fs' = st.fs
           /\ relevent_files' = st.rel
           /\ hist' = [PhaseStep(hist) EXCEPT
                          !.after_apply = Changes(st.fs, WorkspaceRoot(st.fs, Self)),
                          !.created = CreatedBy([fs |-> fs, rel |-> relevent_files],
                                                function_calls)]
    /\ messages' = <<>>
    /\ pc' = "assess"
    /\ UNCHANGED <<last, taskVars, now, retry_id, file_list, response, diff,
                   exc, function_calls,
                   proposed_changes>>
    /\ UNCHANGED mgrVars

\* step_ask_if_done, and the if of run_tinygen that breaks out of the loop
\* (relevent_files is not read again before the next attempt assigns it).
StepAskIfDone ==
    /\ pc = "assess"
    /\ \/ \E r \in AssessResponses :
             /\ response' = r
             /\ IF step_ask_if_done(r)
                THEN /\ pc' = "diff"
                     /\ hist' = [PhaseStep(hist) EXCEPT
                                    !.satisfied = TRUE, !.empty = (r = <<>>)]
                     /\ LoopLocalsDead
                ELSE /\ pc' = "reset"
                     /\ hist' = [PhaseStep(hist) EXCEPT !.empty = (r = <<>>)]
                     /\ relevent_files' = <<>>
                     /\ function_calls' = <<>>
                     /\ UNCHANGED <<retry_id, file_list, messages>>
             /\ UNCHANGED <<diff, exc,
                   proposed_changes>>
       \/ /\ Raise("GenerationError")
          /\ hist' = PhaseStep(hist)
    /\ UNCHANGED <<fsVars, taskVars, now>>
    /\ UNCHANGED mgrVars

\* A reset that restores the tracked files in place (git reset --hard)
\* and removes nothing.
reset_repo_Hard(f) == git_clone_repo(f, REPO_TEMP_DIR, Self)

\* A reset that leaves the workspace as the attempt left it.
reset_repo_Keep(f) == f

\* reset_repo, when both calls succeed: delete_repo, then clone_repo.
reset_repo(f) ==
    git_clone_repo(git_delete_repo(f, REPO_TEMP_DIR, Self), REPO_TEMP_DIR, Self)

\* reset_repo, and the next iteration.
ResetRepo ==
    /\ pc = "reset"
    /\ \/ /\ fs' = reset_repo(fs)
          /\ pc' = LoopNext(retry_id + 1)
          /\ hist' = IF LoopNext(retry_id + 1) = "select"
                     THEN [PhaseStep(hist) EXCEPT !.resets = hist.resets + 1,
                                                  !.after_apply = {},
                                                  !.created = {}]
                     ELSE [PhaseStep(hist) EXCEPT !.resets = hist.resets + 1]
          /\ IF LoopNext(retry_id + 1) = "select"
             THEN /\ retry_id' = retry_id + 1
                  /\ UNCHANGED <<file_list, relevent_files, function_calls,
                                 messages>>
             ELSE LoopLocalsDead
          /\ response' = <<>>
          /\ UNCHANGED <<diff, exc,
                   proposed_changes>>
       \/ /\ fs' = MkRoot(git_delete_repo(fs, REPO_TEMP_DIR, Self))
          /\ hist' = [PhaseStep(hist) EXCEPT !.resets = hist.resets + 1]
          /\ Raise("GitError")
    /\ UNCHANGED <<last, taskVars, now>>
    /\ UNCHANGED mgrVars

\* generate_diff
GenerateDiff ==
    /\ pc = "diff"
    /\ LET d == git_generate_diff(fs, REPO_TEMP_DIR, Self) IN
       \/ /\ ~d.raised
          /\ diff' = d.text
          /\ pc' = "delete"
          /\ response' = <<>>
          /\ UNCHANGED <<retry_id, file_list, relevent_files, function_calls,
                         messages, exc,
                   proposed_changes>>
       \/ Raise("GitError")
    /\ UNCHANGED <<fsVars, taskVars, now, hist>>
    /\ UNCHANGED mgrVars

\* A run that goes on to set the result and leaves the workspace in place.
DeleteRepo_Skipped ==
    /\ pc = "delete"
    /\ pc' = "set_result"
    /\ UNCHANGED <<fsVars, taskVars, now, retry_id, file_list, relevent_files,
                   function_calls, messages, response, diff, exc,
                   proposed_changes, hist>>
    /\ UNCHANGED mgrVars

\* delete_repo
DeleteRepo ==
    /\ pc = "delete"
    /\ \/ /\ fs' = git_delete_repo(fs, REPO_TEMP_DIR, Self)
          /\ pc' = "set_result"
          /\ UNCHANGED <<retry_id, file_list, relevent_files, function_calls,
                         messages, response, diff, exc,
                   proposed_changes>>
          /\ UNCHANGED hist
       \/ /\ Raise("OSError")
          /\ hist' = [hist EXCEPT !.delete_failed = TRUE]
          /\ UNCHANGED fs
    /\ UNCHANGED <<last, taskVars, now>>
    /\ UNCHANGED mgrVars

\* A set_result that updates the status before it writes the result.
SetResult_StatusFirst ==
    /\ pc = "set_result"
    /\ update_status("DONE")
    /\ pc' = "set_result_status"
    /\ UNCHANGED <<fsVars, result, start_time, retry_id, file_list,
                   relevent_files, function_calls, messages, response, diff, exc,
                   proposed_changes, hist>>
    /\ UNCHANGED mgrVars

\* set_result: self.result = result
SetResult ==
    /\ pc = "set_result"
    /\ result' = diff
    /\ pc' = "set_result_status"
    /\ UNCHANGED <<fsVars, status, start_time, end_time, elapsed_time, now,
                   retry_id, file_list, relevent_files, function_calls, messages,
                   response, diff, exc,
                   proposed_changes, hist>>
    /\ UNCHANGED mgrVars

\* A set_result that returns without updating the status.
SetResultStatus_StaysPending ==
    /\ pc = "set_result_status"
    /\ pc' = "returned"
    /\ UNCHANGED <<fsVars, taskVars, now, retry_id, file_list,
                   relevent_files, function_calls, messages, response, diff, exc,
                   proposed_changes, hist>>
    /\ UNCHANGED mgrVars

\* set_result: self.update_status(TaskStatus.DONE); run_tinygen returns.
SetResultStatus ==
    /\ pc = "set_result_status"
    /\ update_status("DONE")
    /\ pc' = "returned"
    /\ UNCHANGED <<fsVars, result, start_time, retry_id, file_list,
                   relevent_files, function_calls, messages, response, diff, exc,
                   proposed_changes, hist>>
    /\ UNCHANGED mgrVars

\* A set_error that hands out what the run had computed.
SetError_PartialDiff ==
    /\ pc = "set_error"
    /\ result' = diff
    /\ pc' = "set_error_status"
    /\ UNCHANGED <<fsVars, status, start_time, end_time, elapsed_time, now,
                   retry_id, file_list, relevent_files, function_calls, messages,
                   response, diff, exc,
                   proposed_changes, hist>>
    /\ UNCHANGED mgrVars

\* set_error: self.result = error
SetError ==
    /\ pc = "set_error"
    /\ result' = Message(exc)
    /\ pc' = "set_error_status"
    /\ UNCHANGED <<fsVars, status, start_time, end_time, elapsed_time, now,
                   retry_id, file_list, relevent_files, function_calls, messages,
                   response, diff, exc,
                   proposed_changes, hist>>
    /\ UNCHANGED mgrVars

\* set_error: self.update_status(TaskStatus.ERROR); without a key
\* run_tinygen returns, otherwise the except clause goes on to clean up.
SetErrorStatus ==
    /\ pc = "set_error_status"
    /\ update_status("ERROR")
    /\ pc' = IF exc = NoKeyMessage THEN "returned" ELSE "cleanup"
    /\ UNCHANGED <<fsVars, result, start_time, retry_id, file_list,
                   relevent_files, function_calls, messages, response, diff, exc,
                   proposed_changes, hist>>
    /\ UNCHANGED mgrVars

\* An except clause whose delete_repo stands outside a try: its failure
\* leaves run_tinygen as an exception.
Cleanup_Reraise ==
    /\ pc = "cleanup"
    /\ \/ /\ fs' = git_delete_repo(fs, REPO_TEMP_DIR, Self)
          /\ UNCHANGED <<hist, exc>>
       \/ /\ hist' = [hist EXCEPT !.delete_failed = TRUE]
          /\ exc' = "OSError"
          /\ UNCHANGED fs
    /\ pc' = "returned"
    /\ UNCHANGED <<last, taskVars, now, retry_id, file_list, relevent_files,
                   function_calls, messages, response, diff,
                   proposed_changes>>
    /\ UNCHANGED mgrVars

\* The except clause's delete_repo, whose own failure is logged.
Cleanup ==
    /\ pc = "cleanup"
    /\ \/ /\ fs' = git_delete_repo(fs, REPO_TEMP_DIR, Self)
          /\ UNCHANGED hist
       \/ /\ hist' = [hist EXCEPT !.delete_failed = TRUE]
          /\ UNCHANGED fs
    /\ pc' = "returned"
    /\ UNCHANGED <<last, taskVars, now, retry_id, file_list, relevent_files,
                   function_calls, messages, response, diff, exc,
                   proposed_changes>>
    /\ UNCHANGED mgrVars

\* main.route_generate has made the task and handed it to the manager;
\* the background run has not begun.
Init ==
    /\ fs = BaseFs
    /\ last = NoOp
    /\ tasks = add_task(NoTasks, TaskObj(Self, "p1"))
    /\ lookup = NoLookup
    /\ TaskInit

Next ==
    \/ Cancel
    \/ RunStart
    \/ CloneRepo
    \/ ListFiles
    \/ StepDetermineRelevantFiles
    \/ StepProposeChanges
    \/ StepGenerateFunctions
    \/ StepApplyFunctions
    \/ StepAskIfDone
    \/ ResetRepo
    \/ GenerateDiff
    \/ DeleteRepo
    \/ SetResult
    \/ SetResultStatus
    \/ SetError
    \/ SetErrorStatus
    \/ Cleanup

Spec == Init /\ [][Next]_vars

\* run_tinygen is straight-line code on a worker thread and every call it
\* makes returns or raises: as long as a step of it can be taken, one is
\* taken.  Nothing is assumed of the cancel route.
RunLight ==
    \/ RunStart
    \/ CloneRepo
    \/ ListFiles
    \/ StepDetermineRelevantFiles
    \/ StepProposeChanges
    \/ StepGenerateFunctions
    \/ StepAskIfDone
    \/ DeleteRepo
    \/ SetResult
    \/ SetResultStatus
    \/ SetError
    \/ SetErrorStatus

\* The steps of StepApplyFunctions, ResetRepo, GenerateDiff and Cleanup,
\* named by the statements they join: each of the four has no guard but
\* its place in run_tinygen, and no other step moves the run from there.
TreeStep ==
    \/ pc = "apply" /\ pc' = "assess"
    \/ pc = "reset" /\ pc' \in {"select", "diff", "set_error"}
    \/ pc = "diff" /\ pc' \in {"delete", "set_error"}
    \/ pc = "cleanup" /\ pc' = "returned"

SpecLive == Init /\ [][Next]_vars /\ WF_vars(RunLight) /\ WF_pc(TreeStep)

-----------------------------------------------------------------------------
(* SpecManager: the calls of the task manager, from its construction on.   *)

runFrame == <<fsVars, taskVars, runVars, now>>

AddTask ==
    \E id \in Tasks, prompt \in Prompts :
        LET task == TaskObj(id, prompt) IN
        /\ ~summary.active
        /\ tasks' = add_task(tasks, task)
        /\ task_status' = [i \in DOMAIN tasks' |->
                              IF i = id THEN Stored("CREATED", "queued")
                              ELSE task_status[i]]
        /\ lookup' = Gave("add_task", id, "ok", task, FALSE)
        /\ summary' = NoSummary
        /\ hist' = [hist EXCEPT !.added = hist.added \cup {task},
                                !.seen = HistInit.seen,
                                !.counted = HistInit.counted]
        /\ UNCHANGED <<runFrame, logs>>

TaskExists ==
    \E id \in Ids :
        /\ lookup' = Gave("task_exists", id, "ok", NoTask, task_exists(tasks, id))
        /\ UNCHANGED <<runFrame, tasks, logs, task_status, summary, hist>>

GetTask ==
    \E id \in Ids :
        /\ lookup' = get_task(tasks, id)
        /\ UNCHANGED <<runFrame, tasks, logs, task_status, summary, hist>>

InitManager ==
    /\ fs = BaseFs
    /\ last = NoOp
    /\ tasks = NoTasks
    /\ lookup = NoLookup
    /\ TaskInit

NextManager == AddTask \/ TaskExists \/ GetTask

SpecManager == InitManager /\ [][NextManager]_vars

-----------------------------------------------------------------------------
(* SpecSummary: tasks are added and cancelled and the summary is computed  *)
(* on the event loop (the routes of main.py are coroutines with no await   *)
(* inside these calls, so they do not interleave with one another), while  *)
(* the background runs, which are plain functions run on worker threads,   *)
(* update the status of their task at any moment.                          *)

\* A worker thread wrote the status of a task: the statuses the task has
\* had during the call of get_task_summary under way.
Seen(h, id, st) ==
    IF summary.active /\ id \in DOMAIN h.seen
    THEN [h EXCEPT !.seen[id] = h.seen[id] \cup {st}]
    ELSE h

\* run_tinygen begins: self.start()
TaskStart ==
    \E id \in Tasks :
        /\ id \in DOMAIN tasks
        /\ task_status[id].at = "queued"
        /\ task_status' = [task_status EXCEPT ![id] = Stored("PENDING", "running")]
        /\ hist' = Seen(hist, id, "PENDING")
        /\ UNCHANGED <<runFrame, tasks, lookup, logs, summary>>

\* run_tinygen ends: set_result or set_error
TaskFinish ==
    \E id \in Tasks, st \in {"DONE", "ERROR"} :
        /\ id \in DOMAIN tasks
        /\ task_status[id].at = "running"
        /\ task_status' = [task_status EXCEPT ![id] = Stored(st, "returned")]
        /\ hist' = Seen(hist, id, st)
        /\ UNCHANGED <<runFrame, tasks, lookup, logs, summary>>

\* main.route_cancel_task: the task is looked up (a missing one gives 404)
\* and task.cancel() is called.
CancelTask ==
    \E id \in Tasks :
        /\ ~summary.active
        /\ task_exists(tasks, id)
        /\ lookup' = get_task(tasks, id)
        /\ task_status' = [task_status EXCEPT ![id].status = "CANCELLED"]
        /\ summary' = NoSummary
        /\ hist' = [hist EXCEPT !.seen = HistInit.seen,
                                !.counted = HistInit.counted]
        /\ UNCHANGED <<runFrame, tasks, logs>>

\* get_task_summary is called: the counts are zero and the loop is before
\* its first task.
SummaryBegin ==
    /\ ~summary.active
    /\ summary' = [active |-> TRUE, todo |-> DOMAIN tasks, task |-> None,
                   read |-> 0, counts |-> NoCounts]
    /\ hist' = [hist EXCEPT
                   !.seen = [i \in DOMAIN tasks |-> {task_status[i].status}],
                   !.counted = [i \in {} |-> ""]]
    /\ UNCHANGED <<runFrame, tasks, lookup, logs, task_status>>

\* The task the loop is at is counted under the key b.
Counted(id, b) ==
    /\ summary' = [summary EXCEPT !.todo = summary.todo \ {id},
                                  !.task = None, !.read = 0,
                                  !.counts[b] = summary.counts[b] + 1]
    /\ hist' = [hist EXCEPT !.counted =
                   [i \in DOMAIN hist.counted \cup {id} |->
                       IF i = id THEN b ELSE hist.counted[i]]]

\* One comparison of the chain: task.status is read and compared with the
\* next status; the first comparison on a task takes the task from the
\* loop (the order of the loop is left open).
SummaryRead ==
    \E id \in Tasks :
        /\ summary.active
        /\ IF summary.task = None THEN id \in summary.todo
                                  ELSE id = summary.task
        /\ LET k == summary.read + 1 IN
           IF task_status[id].status = Chain[k] THEN Counted(id, BucketOf[k])
           ELSE IF k = Len(Chain) THEN Counted(id, "other")
           ELSE /\ summary' = [summary EXCEPT !.task = id, !.read = k]
                /\ hist' = hist
        /\ UNCHANGED <<runFrame, tasks, lookup, logs, task_status>>

\* The loop is over: return summary
SummaryEnd ==
    /\ summary.active
    /\ summary.todo = {}
    /\ summary.task = None
    /\ summary' = [summary EXCEPT !.active = FALSE]
    /\ lookup' = Gave("get_task_summary", None, "ok", NoTask, FALSE)
    /\ UNCHANGED <<runFrame, tasks, logs, task_status, hist>>

NextSummary ==
    \/ AddTask
    \/ TaskStart
    \/ TaskFinish
    \/ CancelTask
    \/ SummaryBegin
    \/ SummaryRead
    \/ SummaryEnd

SpecSummary == InitManager /\ [][NextSummary]_vars

-----------------------------------------------------------------------------
(* SpecLog: the components that hold the logger of the task Self write to  *)
(* it, in any order.                                                       *)

\* The most entries the log takes in the model.
MaxLog == 3

\* Task: the logger calls of start, set_result, set_error, cancel,
\* connect_supabase.
TaskLogs ==
    \E level \in Levels :
        /\ Len(logs) < MaxLog
        /\ logs' = Log(logs, "task", level)
        /\ UNCHANGED <<runFrame, tasks, lookup, task_status, summary, hist>>

\* TinyGenTask: the logger calls of run_tinygen and its steps.
TinyGenLogs ==
    \E level \in Levels :
        /\ Len(logs) < MaxLog
        /\ logs' = Log(logs, "tinygen", level)
        /\ UNCHANGED <<runFrame, tasks, lookup, task_status, summary, hist>>

\* OpenAIInteraction: the logger calls of __init__ and generate.
ClientLogs ==
    \E level \in Levels :
        /\ Len(logs) < MaxLog
        /\ logs' = Log(logs, "gpt", level)
        /\ UNCHANGED <<runFrame, tasks, lookup, task_status, summary, hist>>

NextLog == TaskLogs \/ TinyGenLogs \/ ClientLogs

SpecLog == Init /\ [][NextLog]_vars

-----------------------------------------------------------------------------
(* SpecSelect: the follow-up turn of step_determine_relevant_files taken   *)
(* on its own, for the task Self, while another task has its workspace    *)
(* beside it.                                                              *)

\* The tokens a follow-up response may hold: a file of the workspace, a
\* name that is no file, a directory, a file of the sibling workspace, and
\* a file reached through the symbolic link that leaves the repository.
Tokens ==
    {Rel(<<"a">>), Rel(<<"ghost">>), Rel(<<"d">>), Rel(<<"..", "t2", "a">>),
     Rel(<<"ln", "passwd">>)}

MaxTokens == 3

TokenLists == UNION {[1..n -> Tokens] : n \in 0..MaxTokens}

\* The responses to the follow-up turn.
FollowUpResponses ==
    SelectResponses
    \cup {[empty |-> FALSE, sentinel |-> FALSE, tokens |-> t] : t \in TokenLists}

SelectFiles ==
    \E r \in FollowUpResponses :
        /\ relevent_files' \in FollowUp(fs, r)
        /\ hist' = [hist EXCEPT !.reply = <<r>>]
        /\ UNCHANGED <<fsVars, taskVars, now, pc, retry_id, file_list,
                       function_calls, messages, proposed_changes, response,
                       diff, exc>>
        /\ UNCHANGED mgrVars

SpecSelect == InitFs /\ [][SelectFiles]_vars

-----------------------------------------------------------------------------
(* Claims about the sandboxed file operations (checked under SpecFs).      *)

StrictlyInside(t, root) == root \in Parents(t)
TouchesFile(io) == io.effect \in {"read", "written", "created", "removed"}

\* C1: a file operation whose path argument resolves to a location that is
\* not strictly inside the calling task's own workspace root raises the
\* unsafe-access error (ValueError) and makes no file-system call.
C1_SandboxConfinement ==
    (/\ last.op # None
     /\ ~StrictlyInside(last.resolved, WorkspaceRoot(fs, last.task)))
    => (last.outcome = "ValueError" /\ last.io = NoIO)

\* C2: no file operation called by one task reads, creates, modifies or
\* deletes a file under the workspace root of another task.
C2_WorkspaceIsolation ==
    last.op # None =>
        \A o \in Tasks \ {last.task} :
            ~(TouchesFile(last.io) /\ IsPrefix(WorkspaceRoot(fs, o), last.io.path))

\* C3: a file operation whose path resolves exactly to the workspace root
\* is rejected with the unsafe-access error (ValueError) and is not passed
\* on to the file system.
C3_RootRejected ==
    (last.op # None /\ last.resolved = WorkspaceRoot(fs, last.task))
    => (last.outcome = "ValueError" /\ last.io = NoIO)

-----------------------------------------------------------------------------
(* Claims about run_tinygen and the Task state machine (checked under      *)
(* Spec).                                                                  *)

\* C4: run_tinygen begins at most MAX_RETRIES attempts, whatever the
\* model answers.
C4_RetryBound == hist.attempts <= MAX_RETRIES

\* C4's case: all MAX_RETRIES attempts ended unsatisfied and the loop was left.
C4_Exhausted ==
    pc = "diff" /\ hist.attempts = MAX_RETRIES /\ ~hist.satisfied

\* C5: when all MAX_RETRIES attempts end unsatisfied (and nothing raised,
\* nobody cancelled), the diff computed after the loop holds the changes
\* the last attempt applied.
C5_LastAttemptRemains ==
    (/\ pc = "delete" /\ hist.attempts = MAX_RETRIES /\ ~hist.satisfied
     /\ hist.cancel = "none")
    => diff = DiffText(hist.after_apply)

\* The self-assessment texts equal to 'done' once trimmed and case folded.
DoneTexts ==
    {<<"d", "o", "n", "e">>, <<" ", "D", "o", "n", "e", "\n">>,
     <<"D", "O", "N", "E">>}

\* C6: a self-assessment equal to 'done' after trimming and case folding
\* ends the loop on that attempt with no reset; any other response leads
\* to exactly one reset before the next attempt: the run is about to reset
\* only after another response, an attempt runs after one reset per earlier
\* attempt, and the loop is left either satisfied, with no reset for the
\* last attempt, or after the reset that follows an unsatisfied one.
C6_DoneEndsLoop ==
    /\ pc = "reset" =>
          response \notin DoneTexts /\ hist.resets = hist.attempts - 1
    /\ pc = "select" => hist.resets = hist.attempts
    /\ pc \in {"propose", "generate", "apply", "assess"} =>
          hist.resets = hist.attempts - 1
    /\ pc = "diff" =>
          IF response \in DoneTexts
          THEN hist.resets = hist.attempts - 1
          ELSE hist.resets = hist.attempts

\* C6's case: the first attempt got another answer and was reset once, the
\* second got ' Done' with surrounding white space and ended the loop.
C6_SecondAttemptDone ==
    /\ pc = "diff"
    /\ response = <<" ", "D", "o", "n", "e", "\n">>
    /\ hist.attempts = 2
    /\ hist.resets = 1

\* C7: the status only changes along CREATED -> PENDING -> {DONE, ERROR,
\* CANCELLED} (cancel() being permitted from CREATED too): PENDING is
\* entered only from CREATED and a terminal status is never left.
C7_StatusPath ==
    [][status' # status =>
          <<status, status'>> \in
              {<<"CREATED", "PENDING">>, <<"CREATED", "CANCELLED">>,
               <<"PENDING", "DONE">>, <<"PENDING", "ERROR">>,
               <<"PENDING", "CANCELLED">>}]_vars

\* C8: cancel() on a task that is DONE, ERROR or CANCELLED leaves its
\* status, result and end_time unchanged.
C8_CancelOnTerminal ==
    [][(Cancel /\ status \in Terminal) =>
          (status' = status /\ result' = result /\ end_time' = end_time)]_vars

\* C9: once cancel() was called while the run was in flight, the task is
\* CANCELLED and stays so: the run's completion does not change the status.
C9_CancelledStays == hist.cancel = "inflight" => status = "CANCELLED"

\* C10: after cancel() the run begins no further phase: at most the phase
\* in flight when cancel() was called completes.
C10_NoPhaseAfterCancel == hist.after_cancel <= 1

\* C11: end_time and elapsed_time are set exactly when the status is
\* terminal: unset while the task is CREATED or PENDING, set once it is
\* DONE, ERROR or CANCELLED.
C11_TimesIffTerminal ==
    /\ IsSet(end_time) <=> status \in Terminal
    /\ IsSet(elapsed_time) <=> status \in Terminal

\* The exceptions a phase raises (the missing API key is reported by
\* set_error without an exception).
Exceptions ==
    {"GitError", "PermissionError", "GenerationError", "JSONDecodeError",
     "OSError"}

\* C12: an exception raised by the clone, a call of the model, the parsing
\* of tool arguments, the reset, the diff or the deletion ends the whole
\* run: from then on the run is only in its except clause or returned, no
\* attempt and no reset begins, an ERROR task's result is the exception's
\* message and never diff text, and (nobody having called cancel()) the
\* returned task is in ERROR.
C12_ExceptionEndsRun ==
    /\ exc \in Exceptions =>
          pc \in {"set_error", "set_error_status", "cleanup", "returned"}
    /\ status = "ERROR" => (result = Message(exc) /\ result.entries = {})
    /\ (exc \in Exceptions /\ pc = "returned" /\ hist.cancel = "none") =>
          (status = "ERROR" /\ result = Message(exc))

\* C12's case: the diff was computed, the deletion of the workspace then
\* raised, and the run returned.
C12_DeletionFailed ==
    /\ pc = "returned" /\ exc = "OSError"
    /\ status = "ERROR" /\ result = Message("OSError")

\* C13: once run_tinygen has returned, after success or after a failure
\* in any phase, the workspace root of the task does not exist, provided
\* no call of delete_repo failed.
C13_WorkspaceGone ==
    (pc = "returned" /\ ~hist.delete_failed) =>
        ~Exists(fs, WorkspaceRoot(fs, Self))

\* C13's case: the clone failed after making the root, and the except
\* clause's cleanup removed it.
C13_AfterFailedClone ==
    /\ pc = "returned" /\ exc = "GitError" /\ hist.attempts = 0
    /\ ~hist.delete_failed
    /\ ~Exists(fs, WorkspaceRoot(fs, Self))

\* C14: on the success path the diff is computed first, then the workspace
\* is deleted, then the result is set and the status becomes DONE: while
\* the deletion is pending the diff is computed, the workspace exists and
\* no result is set; the result is set only once the workspace is gone; a
\* DONE task has no workspace and its result is the diff text computed
\* before the deletion (the changes in place after the apply step of the
\* satisfied attempt).
C14_SuccessOrder ==
    /\ pc = "delete" =>
          /\ ~diff.none
          /\ Exists(fs, WorkspaceRoot(fs, Self))
          /\ result.none
    /\ pc \in {"set_result", "set_result_status"} =>
          ~Exists(fs, WorkspaceRoot(fs, Self))
    /\ status = "DONE" =>
          /\ ~Exists(fs, WorkspaceRoot(fs, Self))
          /\ result = diff /\ ~result.none
          /\ hist.satisfied => result = DiffText(hist.after_apply)

\* C14's case: a run that applied changes and was satisfied has returned
\* DONE.
C14_DoneWithDiff ==
    /\ pc = "returned" /\ status = "DONE"
    /\ hist.satisfied /\ result.entries # {}
    /\ ~Exists(fs, WorkspaceRoot(fs, Self))

\* C15: when the apply step of an attempt created a previously untracked
\* file p and the attempt was assessed as satisfied, the result of the
\* DONE task holds a new-file entry for p.
C15_CreatedFileInDiff ==
    (status = "DONE" /\ hist.satisfied /\ hist.cancel = "none") =>
        \A p \in hist.created \ RepoFiles :
            \E e \in result.entries : e.path = p /\ e.change = "new"

\* Everything below a directory, by path relative to it.
Subtree(f, root) ==
    [r \in {SubSeq(q, Len(root) + 1, Len(q)) :
              q \in {x \in DOMAIN f : IsPrefix(root, x) /\ x # root}}
        |-> f[root \o r]]

\* C16: after reset_repo, however many times it was called and whatever
\* the apply steps created, modified or deleted before, the workspace
\* holds exactly the files, with the contents, that clone_repo left.
C16_ResetRestoresClone ==
    (/\ hist.resets > 0
     /\ pc = "select" \/ (pc = "diff" /\ ~hist.satisfied)) =>
        /\ IsDir(fs, WorkspaceRoot(fs, Self))
        /\ Subtree(fs, WorkspaceRoot(fs, Self)) = RepoTree @@ GitMeta

\* C16's case: the last reset of a run, each of whose attempts ended
\* unsatisfied and whose last apply step changed the working tree.
C16_LastReset ==
    /\ pc = "diff" /\ hist.resets = MAX_RETRIES /\ ~hist.satisfied
    /\ hist.after_apply # {}
    /\ Subtree(fs, WorkspaceRoot(fs, Self)) = RepoTree @@ GitMeta

\* C17: the diff that git_generate_diff has just returned is empty exactly
\* when the working tree equals the cloned commit, and it holds an entry
\* for every change of the working tree: every untracked file, every
\* modified file and every deleted file.
C17_DiffComplete ==
    (pc = "delete" /\ hist.cancel = "none") =>
        LET root == WorkspaceRoot(fs, Self)
            wt   == WorkTree(fs, root)
        IN  /\ diff.entries = {} <=>
                  /\ wt = RepoFiles
                  /\ \A r \in wt : fs[root \o r] = RepoTree[r]
            /\ \A r \in wt \ RepoFiles :
                  \E e \in diff.entries : e.path = r /\ e.change = "new"
            /\ \A r \in RepoFiles \ wt :
                  \E e \in diff.entries : e.path = r /\ e.change = "deleted"
            /\ \A r \in RepoFiles \cap wt :
                  fs[root \o r] # RepoTree[r] =>
                      \E e \in diff.entries : e.path = r /\ e.change = "modified"

\* C18: git_delete_repo removes the workspace root with everything below
\* it and nothing else; called when the root is absent (a second call, or
\* the cleanup after a failure before any clone) it changes nothing.
C18_DeleteIdempotent ==
    \A t \in Tasks :
        LET once == git_delete_repo(fs, REPO_TEMP_DIR, t)
            root == WorkspaceRoot(fs, t)
        IN  /\ \A q \in DOMAIN once : ~IsPrefix(root, q)
            /\ \A q \in DOMAIN fs : ~IsPrefix(root, q) =>
                  (q \in DOMAIN once /\ once[q] = fs[q])
            /\ git_delete_repo(once, REPO_TEMP_DIR, t) = once
            /\ ~Exists(fs, root) => once = fs

\* C18's case: making the root failed before any clone, and the cleanup
\* of the except clause called git_delete_repo with the root absent.
C18_CleanupWithoutClone ==
    /\ pc = "returned" /\ exc = "PermissionError"
    /\ ~hist.delete_failed
    /\ ~Exists(fs, WorkspaceRoot(fs, Self))

C20_ListExact ==
    pc = "select" =>
        LET root == WorkspaceRoot(fs, Self) IN
        /\ \A r \in file_list :
              /\ r # <<>> /\ Head(r) # ".git"
              /\ IsFile(fs, root \o r)
        /\ \A q \in DOMAIN fs :
              (/\ IsFile(fs, q) /\ StrictlyInside(q, root)
               /\ ~IsPrefix(root \o <<".git">>, q)) =>
                  SubSeq(q, Len(root) + 1, Len(q)) \in file_list

\* C20's case: the listing of a clone with a file in a subdirectory.
C20_Listed ==
    /\ pc = "select"
    /\ file_list = {<<"a">>, <<".gitignore">>, <<"d", "b">>}

\* C21: a reply of the model without content raises nothing and ends no
\* run: after such a reply the run is in the next phase of the attempt,
\* with no relevant files after file selection, with the placeholder plan
\* after the change proposal, and about to reset and retry after the
\* self-assessment.
C21_EmptyReplyHandled ==
    hist.empty =>
        /\ pc \in {"propose", "generate", "reset"}
        /\ pc = "propose" => relevent_files = <<>>
        /\ pc = "generate" => proposed_changes = "No Response"
        /\ pc = "reset" => response = <<>>

\* C21's case: the self-assessment of the second attempt came back without
\* content, and the run is about to reset.
C21_EmptyAssessment ==
    /\ hist.empty /\ pc = "reset" /\ hist.attempts = 2

-----------------------------------------------------------------------------
(* Claims about the log of a task (checked under SpecLog) and about the    *)
(* task manager (checked under SpecManager).                               *)

\* C22: the log of a task only grows: every step leaves the entries it
\* held in place and in order, and at most appends to them.
C22_LogAppendOnly ==
    [][/\ Len(logs') >= Len(logs)
       /\ SubSeq(logs', 1, Len(logs)) = logs]_vars

\* C22's case: three components have written to the log in turn.
C22_ThreeWriters ==
    /\ Len(logs) = 3
    /\ logs[1].component = "task"
    /\ logs[2].component = "gpt"
    /\ logs[3].component = "tinygen"

\* C23: get_task raises KeyError for every identifier that was never
\* added, and returns the stored task exactly for the identifiers for
\* which task_exists is true; right after add_task(t), task_exists of its
\* identifier is true and get_task returns t.
C23_Lookup ==
    /\ \A id \in Ids :
          /\ id \notin {t.task_id : t \in hist.added} =>
                get_task(tasks, id).outcome = "KeyError"
          /\ task_exists(tasks, id) <=> get_task(tasks, id).outcome = "ok"
          /\ task_exists(tasks, id) =>
                /\ get_task(tasks, id).task = tasks[id]
                /\ get_task(tasks, id).task \in hist.added
    /\ lookup.op = "add_task" =>
          /\ task_exists(tasks, lookup.task_id)
          /\ get_task(tasks, lookup.task_id).task = lookup.task
    /\ (lookup.op = "get_task" /\ lookup.outcome = "ok") =>
          lookup.task = tasks[lookup.task_id]
    /\ (lookup.op = "get_task"
        /\ lookup.task_id \notin {t.task_id : t \in hist.added}) =>
          lookup.outcome = "KeyError"

\* C23's case: a task was added under an identifier that held another
\* task, and one identifier was never added.
C23_Replaced ==
    /\ lookup.op = "add_task" /\ lookup.task = TaskObj("t1", "p2")
    /\ TaskObj("t1", "p1") \in hist.added
    /\ "t2" \notin DOMAIN tasks

-----------------------------------------------------------------------------
(* Claims about the attempts and the final diff (checked under Spec).      *)

\* C37: every attempt starts from the pristine clone: from the start of
\* file selection until the edit operations are applied the workspace
\* holds exactly what clone_repo left and the file list computed before
\* the loop is the listing of the workspace; and the final diff holds
\* only changes of the satisfied attempt (none when no attempt was
\* satisfied).
C37_AttemptsStartPristine ==
    /\ pc \in {"select", "propose", "generate", "apply"} =>
          /\ Subtree(fs, WorkspaceRoot(fs, Self)) = RepoTree @@ GitMeta
          /\ file_list = list_all_files(fs, REPO_TEMP_DIR, Self)
    /\ pc = "delete" =>
          diff.entries \subseteq
              (IF hist.satisfied THEN hist.after_apply ELSE {})

\* C37's case: every attempt ended unsatisfied, the last one had changed
\* the working tree, and the diff computed after the loop is empty.
C37_NothingCarriedOver ==
    /\ pc = "delete" /\ ~hist.satisfied /\ hist.resets = MAX_RETRIES
    /\ hist.after_apply # {}
    /\ diff = DiffText({})

\* C38: the result is written before the status flips: in every state,
\* those between the two assignments of set_result and set_error
\* included, a task whose status is DONE or ERROR has a result (the diff
\* text, possibly empty, or the error message).
C38_ResultBeforeStatus ==
    /\ status \in {"DONE", "ERROR"} => ~result.none
    /\ (status = "DONE" /\ hist.cancel = "none") => result = diff
    /\ (status = "ERROR" /\ hist.cancel = "none") => result = Message(exc)

\* C38's case: the run has returned DONE and its result is the empty diff.
C38_DoneWithEmptyDiff ==
    /\ pc = "returned" /\ status = "DONE" /\ hist.cancel = "none"
    /\ result = DiffText({})

\* C39: every run that has started eventually returns, and has a terminal
\* status (DONE, ERROR or CANCELLED) from then on.
C39_RunTerminates ==
    (pc # "queued") ~> [](pc = "returned" /\ status \in Terminal)

\* C39's case: a run that was cancelled in flight went through all its
\* attempts and returned.
C39_ReturnedAfterAllAttempts ==
    /\ pc = "returned" /\ status \in Terminal
    /\ hist.attempts = MAX_RETRIES /\ hist.cancel = "inflight"

-----------------------------------------------------------------------------
(* Claims about the task manager under concurrent runs (checked under      *)
(* SpecSummary).                                                           *)

\* The key of the summary that stands for a status.
BucketFor(st) ==
    IF \E k \in DOMAIN Chain : Chain[k] = st
    THEN BucketOf[CHOOSE k \in DOMAIN Chain : Chain[k] = st]
    ELSE "other"

\* C36: whatever the interleaving of add_task calls and of the status
\* updates of the running tasks, every added task is found by task_exists
\* and get_task (the task itself when its identifier was used once), and
\* a returned summary has counted each stored task exactly once, under a
\* status the task had during the call.
C36_NoUpdateLost ==
    /\ \A t \in hist.added :
          /\ task_exists(tasks, t.task_id)
          /\ get_task(tasks, t.task_id).outcome = "ok"
          /\ (\A u \in hist.added : u.task_id = t.task_id => u = t) =>
                get_task(tasks, t.task_id).task = t
    /\ (lookup.op = "get_task_summary" /\ ~summary.active) =>
          /\ DOMAIN hist.counted = DOMAIN tasks
          /\ \A b \in Buckets :
                summary.counts[b] =
                    Cardinality({i \in DOMAIN tasks : hist.counted[i] = b})
          /\ \A i \in DOMAIN tasks :
                \E st \in hist.seen[i] : hist.counted[i] = BucketFor(st)

-----------------------------------------------------------------------------
(* Claims about the apply step (checked under Spec).                       *)

\* The canonical location the path of a tool call names, taken in the
\* workspace of the task, and whether it lies inside that workspace.
Target(f, call) == Resolve(f, FullPath(REPO_TEMP_DIR, Self, call.file_path))
InSandbox(f, call) == StrictlyInside(Target(f, call), WorkspaceRoot(f, Self))

\* The well-formed edit operations.
IsWrite(call) ==
    /\ call.function \in {"create_file", "modify_file"}
    /\ {"file_path", "content"} \subseteq call.keys
IsDelete(call) == call.function = "delete_file" /\ "file_path" \in call.keys
IsEdit(call) == IsWrite(call) \/ IsDelete(call)

\* The i-th call is the only edit operation of the list on its path.
OnlyEditOfPath(calls, i) ==
    \A j \in DOMAIN calls :
        (j # i /\ IsEdit(calls[j])) => calls[j].file_path # calls[i].file_path

\* The apply step of an attempt.
ApplyStep == pc = "apply" /\ pc' = "assess"

\* C24: a Delete(p) of the list whose path is inside the workspace and
\* names an existing file (and that no other operation of the list touches)
\* leaves no file p after the apply step, whether or not p was among the
\* relevant files.
C24_DeleteRemoves ==
    [][ApplyStep =>
         \A i \in DOMAIN function_calls :
            LET call == function_calls[i] IN
            (/\ IsDelete(call)
             /\ InSandbox(fs, call)
             /\ IsFile(fs, Target(fs, call))
             /\ OnlyEditOfPath(function_calls, i))
            => ~Exists(fs', Target(fs, call))]_vars

\* C25: a Create(p, content) or Modify(p, content) of the list whose path is
\* inside the workspace and whose parent directory does not exist (and that
\* no other operation of the list touches) leaves the file p with the given
\* content after the apply step.
C25_WriteMakesParents ==
    [][ApplyStep =>
         \A i \in DOMAIN function_calls :
            LET call == function_calls[i]
                t    == Target(fs, call)
            IN  (/\ IsWrite(call)
                 /\ InSandbox(fs, call)
                 /\ ~Exists(fs, Parent(t))
                 /\ OnlyEditOfPath(function_calls, i))
                => (IsFile(fs', t) /\ fs'[t].content = call.content)]_vars

\* The state after the first n operations of a list, each attempted in turn:
\* an operation that raises leaves what it did before raising and stops
\* nothing.
RECURSIVE AfterFirst(_, _, _)
AfterFirst(st, calls, n) ==
    IF n = 0 THEN st
    ELSE ApplyOne(AfterFirst(st, calls, n - 1), calls[n])

\* C26: the apply step attempts the operations in the order of the list; an
\* operation that fails stops nothing: every later operation is attempted on
\* the state the earlier ones left, what was applied remains, no exception
\* leaves the step, and the attempt goes on to the self-assessment.
C26_ApplyInOrder ==
    [][pc = "apply" =>
         \/ /\ pc' = "assess"
            /\ exc' = exc
            /\ LET st == AfterFirst([fs |-> fs, rel |-> relevent_files],
                                    function_calls, Len(function_calls))
               IN  fs' = st.fs /\ relevent_files' = st.rel
         \/ /\ pc' = "apply"
            /\ fs' = fs /\ relevent_files' = relevent_files]_vars

\* An apply step whose first operation failed and whose second took effect.
C26_LaterApplied ==
    /\ pc = "assess"
    /\ Len(function_calls) = 2
    /\ function_calls[1].function = "create_file"
    /\ function_calls[1].file_path = Rel(<<"nodir", "f">>)
    /\ function_calls[2].function = "create_file"
    /\ function_calls[2].file_path = Rel(<<"new">>)
    /\ ~Exists(fs, WorkspaceRoot(fs, Self) \o <<"nodir", "f">>)
    /\ IsFile(fs, WorkspaceRoot(fs, Self) \o <<"new">>)

\* The paths of a list of relevant files.
PathSet(rel) == {rel[i] : i \in DOMAIN rel}

\* C27: after the apply step the relevant files are those of the selection,
\* plus the paths its Create operations created, minus the paths its Delete
\* operations removed, and each of them is a file of the workspace.
C27_RelevantInSync ==
    [][ApplyStep =>
         LET root    == WorkspaceRoot(fs, Self)
             created == {c.file_path : c \in
                           {function_calls[i] : i \in
                              {j \in DOMAIN function_calls :
                                 /\ function_calls[j].function = "create_file"
                                 /\ IsWrite(function_calls[j])
                                 /\ ~Exists(fs, Target(fs, function_calls[j]))
                                 /\ IsFile(fs', Target(fs, function_calls[j]))}}}
             deleted == {c.file_path : c \in
                           {function_calls[i] : i \in
                              {j \in DOMAIN function_calls :
                                 /\ IsDelete(function_calls[j])
                                 /\ IsFile(fs, Target(fs, function_calls[j]))
                                 /\ ~Exists(fs', Target(fs, function_calls[j]))}}}
         IN  /\ PathSet(relevent_files')
                  = (PathSet(relevent_files) \cup created) \ deleted
             /\ \A p \in PathSet(relevent_files') :
                   IsFile(fs', Resolve(fs', FullPath(REPO_TEMP_DIR, Self, p)))]_vars

\* C28: the list of relevant files holds no path twice, from the selection
\* to the self-assessment.
C28_NoDuplicates ==
    pc \in {"propose", "generate", "apply", "assess"} =>
        \A i, j \in DOMAIN relevent_files :
            relevent_files[i] = relevent_files[j] => i = j

\* C29: a function call whose name is none of create_file, modify_file and
\* delete_file, or whose arguments lack a required key, changes nothing and
\* stops nothing: the apply step leaves what it leaves for the list without
\* those calls, and no exception leaves it.
C29_UnknownIgnored ==
    [][ApplyStep =>
         LET st == step_apply_functions([fs |-> fs, rel |-> relevent_files],
                                        SelectSeq(function_calls, IsEdit))
         IN  fs' = st.fs /\ relevent_files' = st.rel /\ exc' = exc]_vars

\* An apply step that met a call of an unknown function and a call that
\* lacks its content, and then created a file.
C29_CreatedAfterUnknown ==
    /\ pc = "assess"
    /\ Len(function_calls) = 2
    /\ ~IsEdit(function_calls[1])
    /\ function_calls[2].function = "create_file"
    /\ function_calls[2].file_path = Rel(<<"new">>)
    /\ IsFile(fs, WorkspaceRoot(fs, Self) \o <<"new">>)
    /\ fs[WorkspaceRoot(fs, Self) \o <<"a">>] = File("c0")

-----------------------------------------------------------------------------
(* Claims about the file selection (checked under SpecSelect).             *)

\* C30: when the follow-up response is no sentinel, the list that the file
\* selection returns holds exactly the distinct tokens of the response that
\* name a readable file inside the workspace of the task, each once.
C30_SelectionExact ==
    (hist.reply # <<>> /\ ~NoRelevantFiles(hist.reply[1])) =>
        /\ PathSet(relevent_files)
              = {p \in PathSet(hist.reply[1].tokens) :
                    LET t == Resolve(fs, FullPath(REPO_TEMP_DIR, Self, p))
                    IN  /\ StrictlyInside(t, WorkspaceRoot(fs, Self))
                        /\ IsFile(fs, t)}
        /\ \A i, j \in DOMAIN relevent_files :
              relevent_files[i] = relevent_files[j] => i = j

-----------------------------------------------------------------------------
(* Claims about the steps of an attempt (checked under Spec).              *)

\* C31: a file selection whose first response holds the sentinel takes no
\* follow-up turn, returns the empty list and raises nothing, and the list
\* is still empty when the proposal and the tool loop hand over to the
\* next step of the attempt.
C31_SentinelEndsSelection ==
    [][/\ (pc = "select" /\ hist'.sentinel) =>
             /\ hist'.select_turns = 1
             /\ relevent_files' = <<>>
             /\ pc' = "propose"
             /\ exc' = exc /\ status' = status
       /\ (pc \in {"propose", "generate"} /\ pc' \in {"generate", "apply"}) =>
             relevent_files' = relevent_files]_vars

\* The selection of the second attempt has just ended on the sentinel.
C31_SentinelSeen ==
    /\ pc = "propose" /\ hist.sentinel /\ hist.attempts = 2
    /\ relevent_files = <<>> /\ hist.cancel = "none"

\* The responses of the model and the tool results of a conversation, and
\* the tool calls its responses hold, in order.
IsResponse(m) == m.role = "assistant"
IsToolResult(m) == m.role = "tool"
RECURSIVE CallsOf(_)
CallsOf(msgs) ==
    IF msgs = <<>> THEN <<>>
    ELSE (IF IsResponse(Head(msgs)) THEN Head(msgs).tool_calls ELSE <<>>)
         \o CallsOf(Tail(msgs))

\* C32: while the tool loop goes on, every response so far held tool calls;
\* when step_generate_functions has returned, the last message is the first
\* response without tool calls, the list returned holds the tool calls of
\* the earlier responses in their order, and the conversation holds one
\* tool result "ok" for each of them, in the same order.
C32_ToolLoop ==
    LET rs == SelectSeq(messages, IsResponse)
        ts == SelectSeq(messages, IsToolResult)
    IN  /\ pc = "generate" =>
              /\ \A i \in DOMAIN rs : rs[i].tool_calls # <<>>
              /\ function_calls = CallsOf(messages)
        /\ pc = "apply" =>
              /\ rs # <<>>
              /\ messages[Len(messages)] = rs[Len(rs)]
              /\ \A i \in DOMAIN rs : (rs[i].tool_calls = <<>>) <=> (i = Len(rs))
              /\ function_calls = CallsOf(messages)
              /\ Len(ts) = Len(function_calls)
              /\ \A i \in DOMAIN ts :
                    ts[i].tool_call = function_calls[i] /\ ts[i].content = "ok"

\* The tool loop has returned after a turn of two tool calls and a turn of
\* one.
C32_ThreeCalls ==
    /\ pc = "apply"
    /\ Len(function_calls) = 3
    /\ Turns(messages) = 2
    /\ \E i \in DOMAIN messages : Len(messages[i].tool_calls) = 2

\* C33: the tool loop has a ceiling of its own on the number of turns: it
\* has stopped by the time the model has answered with tool calls on every
\* turn it was given (MaxTurns of them here), whatever the model goes on to
\* answer.
C33_TurnCeiling == pc = "generate" => Turns(messages) < MaxTurns

\* C34: the delete_repo of the except clause, failing or not, ends the run
\* without raising: run_tinygen returns, the exception that ended the run
\* is still the one recorded, the result is still its message, and the
\* status stays what it was (ERROR, nobody having called cancel()).
C34_CleanupFailureLogged ==
    [][(pc = "cleanup" /\ pc' # "cleanup") =>
          /\ pc' = "returned"
          /\ exc' = exc
          /\ result' = result /\ result = Message(exc)
          /\ status' = status
          /\ hist.cancel = "none" => status = "ERROR"]_vars

\* The clone failed and the cleanup that followed failed too: the root of
\* the workspace is still there and the task is in ERROR with the message
\* of the clone's exception.
C34_SecondFailure ==
    /\ pc = "returned" /\ exc = "GitError" /\ hist.delete_failed
    /\ Exists(fs, WorkspaceRoot(fs, Self))
    /\ status = "ERROR" /\ result = Message("GitError")

-----------------------------------------------------------------------------
(* Claims about git_reset_repo (checked under SpecReset).                  *)

\* C35: right after git_reset_repo has returned, the workspace of the task
\* holds exactly what the clone left: the files the commit tracks with
\* their cloned contents, those that were deleted among them, and no file
\* created since.
C35_HardResetRestores ==
    (last.op = "git_reset_repo" /\ last.outcome = "ok") =>
        Subtree(fs, WorkspaceRoot(fs, last.task)) = RepoTree @@ GitMeta

=============================================================================
